---- MODULE Spec2Model ----
(***************************************************************************)
(* Model of the replica synchronisation core of crdt-playground:           *)
(*   src/src/crdt/peer.ts         CRDTPeer  (wrapper around a Yjs Y.Doc)   *)
(*   src/src/crdt/sync-engine.ts  SyncEngine (relay, queue, reconcile)     *)
(*                                                                         *)
(* A Y.Doc is modelled by its struct store: one YATA list per shared type  *)
(* (the text "shared-text" and one chain per key of the map "counters"),   *)
(* the delete set, and the structs / deletes that wait for a missing       *)
(* dependency.  Item ids are <<clientID, clock>>.                          *)
(***************************************************************************)
EXTENDS Integers, Sequences, FiniteSets, TLC

\* ------------------------------------------------------------------ bounds
\* local mutations (text inserts, text deletes, counter writes) in all
MaxEdits == 2
\* edits in all in the runs with observers and with isPeerOnline callers
MaxApiEdits == 1
\* registrations held at once
MaxListeners == 2
\* length of the text of a panel and of the value of its textarea
MaxLen == 3
\* sync events handed to the sync log
MaxLogEvents == 100
\* the callbacks a caller may register
Observers == {"f", "g"}

\* ------------------------------------------------------------- vocabulary
Names == {"A", "B"}
Other(n) == IF n = "A" THEN "B" ELSE "A"
ClientIDs == {1, 2}
NoId == <<0, 0>>
TextKey == "shared-text"
ListKeys == {TextKey} \cup Names
InsLens == {1, 2}

Range(s) == {s[i] : i \in 1..Len(s)}

\* the character (a code) typed by the keystroke that creates item <<c, k>>;
\* every keystroke types a different one, so texts compare item by item
CharOf(c, k) == 100 * c + k

\* ------------------------------------------------------------ the Y.Doc
NewDoc(cid) ==
  [clientID |-> cid,
   lists |-> [k \in ListKeys |-> <<>>],
   deleted |-> {},
   pendingStructs |-> {},
   pendingDs |-> {}]

Items(doc) == UNION {Range(doc.lists[k]) : k \in ListKeys}
Ids(doc) == {it.id : it \in Items(doc)}

\* next expected clock of client c in this store
getState(doc, c) == Cardinality({i \in Ids(doc) : i[1] = c})

getStateVector(doc) == [c \in ClientIDs |-> getState(doc, c)]

IndexOf(list, id) ==
  IF id = NoId THEN 0 ELSE CHOOSE i \in 1..Len(list) : list[i].id = id

InsertAfter(list, left, item) ==
  SubSeq(list, 1, left) \o <<item>> \o SubSeq(list, left + 1, Len(list))

\* The conflict-resolution loop of Item.integrate: o walks right from the
\* item after the origin up to the right origin; left is the item after
\* which the new item will be placed.
RECURSIVE ScanConflicts(_, _, _, _, _, _, _)
ScanConflicts(list, item, o, ri, left, conflicting, before) ==
  IF o > Len(list) \/ o = ri THEN left
  ELSE
    LET b2 == before \cup {o}
        c2 == conflicting \cup {o}
        oo == IndexOf(list, list[o].origin)
    IN  IF list[o].origin = item.origin
        THEN IF list[o].id[1] < item.id[1]
             THEN ScanConflicts(list, item, o + 1, ri, o, {}, b2)
             ELSE IF list[o].rightOrigin = item.rightOrigin
                  THEN left
                  ELSE ScanConflicts(list, item, o + 1, ri, left, c2, b2)
        ELSE IF list[o].origin # NoId /\ oo \in b2
             THEN IF oo \notin c2
                  THEN ScanConflicts(list, item, o + 1, ri, o, {}, b2)
                  ELSE ScanConflicts(list, item, o + 1, ri, left, c2, b2)
             ELSE left

\* integrate that puts the item right after its origin, whatever concurrent
\* items already stand there
integrate_noConflictScan(doc, item) ==
  LET list == doc.lists[item.parent]
      left == IndexOf(list, item.origin)
      newList == InsertAfter(list, left, item)
      dels == IF item.parent = TextKey THEN {}
              ELSE IF left < Len(list) THEN {item.id}
              ELSE IF left > 0 THEN {list[left].id}
              ELSE {}
  IN  [doc EXCEPT !.lists[item.parent] = newList,
                  !.deleted = @ \cup dels]

\* Item.integrate: place the item in its parent list; a map entry that is
\* not the last of its chain is deleted, one that is last deletes its left.
integrate(doc, item) ==
  LET list == doc.lists[item.parent]
      li == IndexOf(list, item.origin)
      ri == IF item.rightOrigin = NoId THEN Len(list) + 1
            ELSE IndexOf(list, item.rightOrigin)
      left == ScanConflicts(list, item, li + 1, ri, li, {}, {})
      newList == InsertAfter(list, left, item)
      dels == IF item.parent = TextKey THEN {}
              ELSE IF left < Len(list) THEN {item.id}
              ELSE IF left > 0 THEN {list[left].id}
              ELSE {}
  IN  [doc EXCEPT !.lists[item.parent] = newList,
                  !.deleted = @ \cup dels]

DepsPresent(doc, item) ==
  /\ item.origin \in Ids(doc) \cup {NoId}
  /\ item.rightOrigin \in Ids(doc) \cup {NoId}

Integrable(doc, item) ==
  /\ item.id[2] = getState(doc, item.id[1])
  /\ DepsPresent(doc, item)

\* integrate every struct whose dependencies are present; structs already
\* in the store are dropped, the others stay pending
RECURSIVE integrateStructs(_, _)
integrateStructs(doc, todo) ==
  LET fresh == {it \in todo : it.id[2] >= getState(doc, it.id[1])}
      ready == {it \in fresh : Integrable(doc, it)}
  IN  IF ready = {}
      THEN [doc EXCEPT !.pendingStructs = fresh]
      ELSE LET it == CHOOSE x \in ready : \A y \in ready : y.id[1] <= x.id[1]
           IN  integrateStructs(integrate(doc, it), fresh \ {it})

\* Y.applyUpdate: integrate the structs, then apply the delete set
docApplyUpdate(doc, update) ==
  LET d1 == integrateStructs(doc, update.structs \cup doc.pendingStructs)
      ds == update.ds \cup doc.pendingDs
      known == ds \cap Ids(d1)
  IN  [d1 EXCEPT !.deleted = @ \cup known, !.pendingDs = ds \ known]

\* an encoding that leaves the delete set out
docEncodeStateAsUpdate_noDeleteSet(doc, sv) ==
  [structs |-> {it \in Items(doc) \cup doc.pendingStructs : it.id[2] >= sv[it.id[1]]},
   ds |-> {}]

\* Y.encodeStateAsUpdate(doc, sv): the structs the remote lacks and the
\* whole delete set
docEncodeStateAsUpdate(doc, sv) ==
  [structs |-> {it \in Items(doc) \cup doc.pendingStructs : it.id[2] >= sv[it.id[1]]},
   ds |-> doc.deleted \cup doc.pendingDs]

\* size of an encoded update: a header of two bytes (number of struct
\* clients, number of delete-set clients), more for every struct and delete
byteLength(update) ==
  2 + 3 * Cardinality(update.structs) + 2 * Cardinality(update.ds)

\* ------------------------------------------------------------ typed views
Visible(doc, list) == SelectSeq(list, LAMBDA it : it.id \notin doc.deleted)

\* Y.Text.toString
toString(doc) ==
  LET v == Visible(doc, doc.lists[TextKey])
  IN  [i \in 1..Len(v) |-> v[i].content]

\* Y.Map.has / Y.Map.get on the counters map
mapHas(doc, key) ==
  LET chain == doc.lists[key]
  IN  Len(chain) > 0 /\ chain[Len(chain)].id \notin doc.deleted

mapGet(doc, key) == doc.lists[key][Len(doc.lists[key])].content

\* this.counters.get(name) ?? 0
counterOrZero(doc, key) == IF mapHas(doc, key) THEN mapGet(doc, key) ELSE 0

RECURSIVE SumOver(_, _)
SumOver(doc, keys) ==
  IF keys = {} THEN 0
  ELSE LET k == CHOOSE x \in keys : TRUE
       IN  mapGet(doc, k) + SumOver(doc, keys \ {k})

getCounterTotal(doc) == SumOver(doc, {k \in Names : mapHas(doc, k)})

\* what a user of the replica can read: the text and the counter entries
Content(doc) ==
  [text |-> toString(doc),
   counters |-> [k \in {n \in Names : mapHas(doc, n)} |-> mapGet(doc, k)]]

\* -------------------------------------------------------- local mutations
\* Each returns the new document and the update the document emits.

\* the text and counter items a local insert / set creates, one per clock
NewItem(doc, parent, origin, rightOrigin, content) ==
  [id |-> <<doc.clientID, getState(doc, doc.clientID)>>,
   origin |-> origin, rightOrigin |-> rightOrigin,
   parent |-> parent, content |-> content]

\* Y.Text.insert of len characters into the gap after list position gap
\* (gap = 0: before the first item).  Characters after the first have the
\* previous character as origin.
RECURSIVE insertChars(_, _, _, _, _)
insertChars(doc, origin, rightOrigin, len, structs) ==
  IF len = 0 THEN [doc |-> doc, update |-> [structs |-> structs, ds |-> {}]]
  ELSE LET k == getState(doc, doc.clientID)
           it == NewItem(doc, TextKey, origin, rightOrigin, CharOf(doc.clientID, k))
       IN  insertChars(integrate(doc, it), it.id, rightOrigin, len - 1,
                       structs \cup {it})

textInsert(doc, gap, len) ==
  LET list == doc.lists[TextKey]
      origin == IF gap = 0 THEN NoId ELSE list[gap].id
      rightOrigin == IF gap = Len(list) THEN NoId ELSE list[gap + 1].id
  IN  insertChars(doc, origin, rightOrigin, len, {})

\* Y.Text.delete(index, 1): the index-th visible character becomes a tombstone
textDelete(doc, index) ==
  LET v == Visible(doc, doc.lists[TextKey])
      id == v[index + 1].id
  IN  [doc |-> [doc EXCEPT !.deleted = @ \cup {id}],
       update |-> [structs |-> {}, ds |-> {id}]]

\* Y.Map.set(key, value): a new item at the end of the key's chain; the
\* previous entry is deleted
mapSet(doc, key, value) ==
  LET chain == doc.lists[key]
      origin == IF Len(chain) = 0 THEN NoId ELSE chain[Len(chain)].id
      it == NewItem(doc, key, origin, NoId, value)
      d1 == integrate(doc, it)
  IN  [doc |-> d1,
       update |-> [structs |-> {it}, ds |-> d1.deleted \ doc.deleted]]

\* incrementCounter that starts from the total of all keys
incrementCounter_fromTotal(doc, name) == mapSet(doc, name, getCounterTotal(doc) + 1)

\* incrementCounter()
incrementCounter(doc, name) == mapSet(doc, name, counterOrZero(doc, name) + 1)

\* decrementCounter that starts from 0 instead of the current value
decrementCounter_fromZero(doc, name) == mapSet(doc, name, 0 - 1)

decrementCounter(doc, name) == mapSet(doc, name, counterOrZero(doc, name) - 1)

VisibleLen(doc) == Len(Visible(doc, doc.lists[TextKey]))

\* the local mutations a user can make on a replica
LocalOps(doc) ==
  [kind : {"insert"}, gap : 0..Len(doc.lists[TextKey]), len : InsLens]
  \cup [kind : {"delete"}, index : 0..(VisibleLen(doc) - 1)]
  \cup [kind : {"inc", "dec"}]

OpCost(op) == IF op.kind = "insert" THEN op.len ELSE 1

mutate(doc, name, op) ==
  CASE op.kind = "insert" -> textInsert(doc, op.gap, op.len)
    [] op.kind = "delete" -> textDelete(doc, op.index)
    [] op.kind = "inc" -> incrementCounter(doc, name)
    [] op.kind = "dec" -> decrementCounter(doc, name)

\* ------------------------------------------------------------ SyncEngine
\* An engine value e is a record of the fields of SyncEngine and of its two
\* peers, together with a log of what the running operation did:
\*   events    the sync events passed to emit, in order
\*   applied   the calls of CRDTPeer.applyUpdate, in order
\*   notified  the calls of handleAUpdate / handleBUpdate, in order
\*   reconciles the number of runs of reconcile
\*   thrown    whether the operation threw
\*   delivered the calls of the registered observers, in order, each with
\*             what the observer can read of the destination at that moment

UnknownName == "Z"

docOf(e, n) == IF n = "A" THEN e.peerA.doc ELSE e.peerB.doc

withDoc(e, n, d) ==
  IF n = "A" THEN [e EXCEPT !.peerA.doc = d] ELSE [e EXCEPT !.peerB.doc = d]

\* what an observer can read of the destination when it is called: its
\* replica, its queue, and the applyUpdate calls made so far
Seen(e, to) ==
  [doc |-> docOf(e, to),
   queue |-> IF to = "A" THEN e.queueForA ELSE e.queueForB,
   applied |-> e.applied]

\* emit that calls the registrations last one first
emit_reverseOrder(e, event) ==
  [e EXCEPT !.events = Append(@, event),
            !.delivered = @ \o [i \in 1..Len(e.listeners) |->
                                  [cb |-> e.listeners[Len(e.listeners) + 1 - i],
                                   event |-> event, seen |-> Seen(e, event.to)]]]

\* private emit(event): every registration is called, in registration order
emit(e, event) ==
  [e EXCEPT !.events = Append(@, event),
            !.delivered = @ \o [i \in 1..Len(e.listeners) |->
                                  [cb |-> e.listeners[i], event |-> event,
                                   seen |-> Seen(e, event.to)]]]

\* whether a transaction changed the document (only then does the
\* document fire 'update')
DocChanged(d0, d1) == d0.lists # d1.lists \/ d0.deleted # d1.deleted

RECURSIVE relay(_, _, _, _, _)
RECURSIVE peerApplyUpdate(_, _, _, _)
RECURSIVE fireUpdate(_, _, _, _)
RECURSIVE handleAUpdate(_, _, _)
RECURSIVE handleBUpdate(_, _, _)

\* the handler the constructor registers on peer A
handleAUpdate(e, update, origin) ==
  LET e1 == [e EXCEPT !.notified = Append(@, [peer |-> "A", origin |-> origin])]
  IN  IF origin = "remote" THEN e1
      ELSE relay(e1, update, "A", "B", e1.peerAOnline /\ e1.peerBOnline)

\* handleBUpdate without the origin test: echoes are relayed back
handleBUpdate_noOriginTest(e, update, origin) ==
  relay([e EXCEPT !.notified = Append(@, [peer |-> "B", origin |-> origin])],
        update, "B", "A", e.peerAOnline /\ e.peerBOnline)

\* the handler the constructor registers on peer B
handleBUpdate(e, update, origin) ==
  LET e1 == [e EXCEPT !.notified = Append(@, [peer |-> "B", origin |-> origin])]
  IN  IF origin = "remote" THEN e1
      ELSE relay(e1, update, "B", "A", e1.peerAOnline /\ e1.peerBOnline)

\* doc.on('update', cb): the document of peer n calls its registered handler
fireUpdate(e, n, update, origin) ==
  IF n \notin e.subscribed THEN e
  ELSE IF n = "A" THEN handleAUpdate(e, update, origin)
  ELSE handleBUpdate(e, update, origin)

\* applyUpdate that replaces the replica's state by the update
peerApplyUpdate_replacesDoc(e, n, update, origin) ==
  LET d0 == docOf(e, n)
      d1 == docApplyUpdate(NewDoc(d0.clientID), update)
      e1 == [withDoc(e, n, d1) EXCEPT
               !.applied = Append(@, [to |-> n, update |-> update, origin |-> origin])]
  IN  IF DocChanged(d0, d1) THEN fireUpdate(e1, n, update, origin) ELSE e1

\* CRDTPeer.applyUpdate(update, origin)
peerApplyUpdate(e, n, update, origin) ==
  LET d0 == docOf(e, n)
      d1 == docApplyUpdate(d0, update)
      e1 == [withDoc(e, n, d1) EXCEPT
               !.applied = Append(@, [to |-> n, update |-> update, origin |-> origin])]
  IN  IF DocChanged(d0, d1) THEN fireUpdate(e1, n, update, origin) ELSE e1

\* relay that reports a live update without applying it
relay_liveNotApplied(e, update, from, to, online) ==
  IF online
  THEN emit(e, [from |-> from, to |-> to, bytes |-> byteLength(update), type |-> "live"])
  ELSE emit(IF to = "A" THEN [e EXCEPT !.queueForA = Append(@, update)]
                        ELSE [e EXCEPT !.queueForB = Append(@, update)],
            [from |-> from, to |-> to, bytes |-> byteLength(update), type |-> "queued"])

\* relay that delivers whatever the online flags say
relay_deliversOffline(e, update, from, to, online) ==
  emit(peerApplyUpdate(e, to, update, "remote"),
       [from |-> from, to |-> to, bytes |-> byteLength(update), type |-> "live"])

\* relay that queues a copy of every update, delivered or not
relay_alwaysQueues(e, update, from, to, online) ==
  LET q == IF to = "A" THEN [e EXCEPT !.queueForA = Append(@, update)]
                       ELSE [e EXCEPT !.queueForB = Append(@, update)]
  IN  IF online
      THEN emit(peerApplyUpdate(q, to, update, "remote"),
                [from |-> from, to |-> to, bytes |-> byteLength(update), type |-> "live"])
      ELSE emit(q, [from |-> from, to |-> to, bytes |-> byteLength(update), type |-> "queued"])

\* relay that reports an update before it applies or queues it
relay_emitsFirst(e, update, from, to, online) ==
  IF online
  THEN peerApplyUpdate(
         emit(e, [from |-> from, to |-> to, bytes |-> byteLength(update), type |-> "live"]),
         to, update, "remote")
  ELSE LET e1 == emit(e, [from |-> from, to |-> to, bytes |-> byteLength(update),
                          type |-> "queued"])
       IN  IF to = "A" THEN [e1 EXCEPT !.queueForA = Append(@, update)]
                       ELSE [e1 EXCEPT !.queueForB = Append(@, update)]

\* relay that puts a queued update in front of the queue
relay_queuesInFront(e, update, from, to, online) ==
  IF online
  THEN emit(peerApplyUpdate(e, to, update, "remote"),
            [from |-> from, to |-> to, bytes |-> byteLength(update), type |-> "live"])
  ELSE emit(IF to = "A" THEN [e EXCEPT !.queueForA = <<update>> \o @]
                        ELSE [e EXCEPT !.queueForB = <<update>> \o @],
            [from |-> from, to |-> to, bytes |-> byteLength(update), type |-> "queued"])

\* private relay(update, from, to, online)
relay(e, update, from, to, online) ==
  IF online
  THEN emit(peerApplyUpdate(e, to, update, "remote"),
            [from |-> from, to |-> to, bytes |-> byteLength(update), type |-> "live"])
  ELSE emit(IF to = "A" THEN [e EXCEPT !.queueForA = Append(@, update)]
                        ELSE [e EXCEPT !.queueForB = Append(@, update)],
            [from |-> from, to |-> to, bytes |-> byteLength(update), type |-> "queued"])

EMPTY_UPDATE_THRESHOLD == 2

\* reconcile that sends A's missing operations to B but not B's to A
reconcile_oneWay(e) ==
  LET svB == getStateVector(e.peerB.doc)
      updateForB == docEncodeStateAsUpdate(e.peerA.doc, svB)
      e0 == [e EXCEPT !.reconciles = @ + 1]
      e2 == IF byteLength(updateForB) > EMPTY_UPDATE_THRESHOLD
            THEN emit(peerApplyUpdate(e0, "B", updateForB, "remote"),
                      [from |-> "A", to |-> "B", bytes |-> byteLength(updateForB),
                       type |-> "reconnect"])
            ELSE e0
  IN  [e2 EXCEPT !.queueForA = <<>>, !.queueForB = <<>>]

\* reconcile that clears a queue only when it applied a delta for it
reconcile_keepsQueues(e) ==
  LET svA == getStateVector(e.peerA.doc)
      svB == getStateVector(e.peerB.doc)
      updateForA == docEncodeStateAsUpdate(e.peerB.doc, svA)
      updateForB == docEncodeStateAsUpdate(e.peerA.doc, svB)
      e0 == [e EXCEPT !.reconciles = @ + 1]
      e1 == IF byteLength(updateForA) > EMPTY_UPDATE_THRESHOLD
            THEN emit(peerApplyUpdate([e0 EXCEPT !.queueForA = <<>>], "A", updateForA, "remote"),
                      [from |-> "B", to |-> "A", bytes |-> byteLength(updateForA),
                       type |-> "reconnect"])
            ELSE e0
  IN  IF byteLength(updateForB) > EMPTY_UPDATE_THRESHOLD
      THEN emit(peerApplyUpdate(e1, "B", updateForB, "remote"),
                [from |-> "A", to |-> "B", bytes |-> byteLength(updateForB),
                 type |-> "reconnect"])
      ELSE e1

\* reconcile that computes B's delta after A has been given its own
reconcile_sequential(e) ==
  LET svA == getStateVector(e.peerA.doc)
      svB == getStateVector(e.peerB.doc)
      updateForA == docEncodeStateAsUpdate(e.peerB.doc, svA)
      e0 == [e EXCEPT !.reconciles = @ + 1]
      e1 == IF byteLength(updateForA) > EMPTY_UPDATE_THRESHOLD
            THEN emit(peerApplyUpdate(e0, "A", updateForA, "remote"),
                      [from |-> "B", to |-> "A", bytes |-> byteLength(updateForA),
                       type |-> "reconnect"])
            ELSE e0
      updateForB == docEncodeStateAsUpdate(e1.peerA.doc, svB)
      e2 == IF byteLength(updateForB) > EMPTY_UPDATE_THRESHOLD
            THEN emit(peerApplyUpdate(e1, "B", updateForB, "remote"),
                      [from |-> "A", to |-> "B", bytes |-> byteLength(updateForB),
                       type |-> "reconnect"])
            ELSE e1
  IN  [e2 EXCEPT !.queueForA = <<>>, !.queueForB = <<>>]

\* private reconcile()
reconcile(e) ==
  LET svA == getStateVector(e.peerA.doc)
      svB == getStateVector(e.peerB.doc)
      updateForA == docEncodeStateAsUpdate(e.peerB.doc, svA)
      updateForB == docEncodeStateAsUpdate(e.peerA.doc, svB)
      e0 == [e EXCEPT !.reconciles = @ + 1]
      e1 == IF byteLength(updateForA) > EMPTY_UPDATE_THRESHOLD
            THEN emit(peerApplyUpdate(e0, "A", updateForA, "remote"),
                      [from |-> "B", to |-> "A", bytes |-> byteLength(updateForA),
                       type |-> "reconnect"])
            ELSE e0
      e2 == IF byteLength(updateForB) > EMPTY_UPDATE_THRESHOLD
            THEN emit(peerApplyUpdate(e1, "B", updateForB, "remote"),
                      [from |-> "A", to |-> "B", bytes |-> byteLength(updateForB),
                       type |-> "reconnect"])
            ELSE e1
  IN  [e2 EXCEPT !.queueForA = <<>>, !.queueForB = <<>>]

\* the log of a new operation
begin(e) ==
  [e EXCEPT !.events = <<>>, !.applied = <<>>, !.notified = <<>>,
            !.reconciles = 0, !.thrown = FALSE, !.delivered = <<>>]

\* setOnline that reconciles whenever a peer is set online
setOnline_ignoresOtherPeer(e, peerName, online) ==
  LET e0 == begin(e)
      e1 == IF peerName = e0.peerA.name THEN [e0 EXCEPT !.peerAOnline = online]
            ELSE IF peerName = e0.peerB.name THEN [e0 EXCEPT !.peerBOnline = online]
            ELSE [e0 EXCEPT !.thrown = TRUE]
  IN  IF e1.thrown THEN e1
      ELSE IF online THEN reconcile(e1)
      ELSE e1

\* setOnline that takes every name but A's for B's
setOnline_unknownIsB(e, peerName, online) ==
  LET e0 == begin(e)
      e1 == IF peerName = e0.peerA.name THEN [e0 EXCEPT !.peerAOnline = online]
            ELSE [e0 EXCEPT !.peerBOnline = online]
  IN  IF online /\ e1.peerAOnline /\ e1.peerBOnline THEN reconcile(e1)
      ELSE e1

\* setOnline(peerName, online)
setOnline(e, peerName, online) ==
  LET e0 == begin(e)
      e1 == IF peerName = e0.peerA.name THEN [e0 EXCEPT !.peerAOnline = online]
            ELSE IF peerName = e0.peerB.name THEN [e0 EXCEPT !.peerBOnline = online]
            ELSE [e0 EXCEPT !.thrown = TRUE]
  IN  IF e1.thrown THEN e1
      ELSE IF online /\ e1.peerAOnline /\ e1.peerBOnline THEN reconcile(e1)
      ELSE e1

\* isPeerOnline that answers whether the link is fully online
isPeerOnline_linkState(e, peerName) == e.peerAOnline /\ e.peerBOnline

\* isPeerOnline(peerName), for the two managed names
isPeerOnline(e, peerName) ==
  IF peerName = e.peerA.name THEN e.peerAOnline ELSE e.peerBOnline

\* a call of isPeerOnline(peerName): it throws for a name of neither peer
isPeerOnlineCall(e, peerName) ==
  [begin(e) EXCEPT !.thrown = peerName \notin {e.peerA.name, e.peerB.name}]

\* onSyncEvent(cb)
onSyncEvent(e, cb) == [begin(e) EXCEPT !.listeners = Append(@, cb)]

\* offSyncEvent that removes every observer
offSyncEvent_clearsAll(e, cb) == [begin(e) EXCEPT !.listeners = <<>>]

\* offSyncEvent(cb)
offSyncEvent(e, cb) ==
  [begin(e) EXCEPT !.listeners = SelectSeq(@, LAMBDA l : l # cb)]

\* destroy that leaves the handler on peer B registered
destroy_oneHandler(e) ==
  [begin(e) EXCEPT !.subscribed = @ \ {"A"}, !.listeners = <<>>]

\* destroy that unsubscribes from the peers and keeps the observers
destroy_keepsListeners(e) == [begin(e) EXCEPT !.subscribed = {}]

\* destroy()
destroy(e) == [begin(e) EXCEPT !.subscribed = {}, !.listeners = <<>>]

\* a local mutation on the replica named n: the document changes and fires
\* 'update' with a local origin
localMutation(e, n, op) ==
  LET e0 == begin(e)
      r == mutate(docOf(e0, n), n, op)
  IN  fireUpdate(withDoc(e0, n, r.doc), n, r.update, "local")

\* new SyncEngine(new CRDTPeer('A'), new CRDTPeer('B')); the documents draw
\* distinct random client ids
NewEngine(cidA, cidB) ==
  [peerA |-> [name |-> "A", doc |-> NewDoc(cidA)],
   peerB |-> [name |-> "B", doc |-> NewDoc(cidB)],
   peerAOnline |-> TRUE, peerBOnline |-> TRUE,
   queueForA |-> <<>>, queueForB |-> <<>>,
   subscribed |-> {"A", "B"}, listeners |-> <<>>,
   events |-> <<>>, applied |-> <<>>, notified |-> <<>>,
   reconciles |-> 0, thrown |-> FALSE, delivered |-> <<>>]

\* ------------------------------------------------------------- PeerPanel
\* The text of the panel's replica is taken as the string Y.Text.toString
\* gives; Y.Text.delete and Y.Text.insert act on it by index.
Chars == {"a", "b"}

Strings == UNION {[1..n -> Chars] : n \in 0..MaxLen}

\* String.slice(from, to), 0-based, to exclusive
slice(str, from, to) == SubSeq(str, from + 1, to)

\* yText.delete(index, length)
yTextDelete(str, index, length) ==
  SubSeq(str, 1, index) \o SubSeq(str, index + length + 1, Len(str))

\* yText.insert(index, text)
yTextInsert(str, index, text) ==
  SubSeq(str, 1, index) \o text \o SubSeq(str, index + 1, Len(str))

\* the first while loop of the input handler
RECURSIVE ScanStart(_, _, _)
ScanStart(oldValue, newValue, start) ==
  IF start < Len(oldValue) /\ start < Len(newValue)
       /\ oldValue[start + 1] = newValue[start + 1]
  THEN ScanStart(oldValue, newValue, start + 1)
  ELSE start

\* a second loop that does not stop at start
RECURSIVE ScanEnd_ignoresStart(_, _, _, _, _)
ScanEnd_ignoresStart(oldValue, newValue, start, oldEnd, newEnd) ==
  IF oldEnd > 0 /\ newEnd > 0 /\ oldValue[oldEnd] = newValue[newEnd]
  THEN ScanEnd_ignoresStart(oldValue, newValue, start, oldEnd - 1, newEnd - 1)
  ELSE [oldEnd |-> oldEnd, newEnd |-> newEnd]

\* the second while loop of the input handler
RECURSIVE ScanEnd(_, _, _, _, _)
ScanEnd(oldValue, newValue, start, oldEnd, newEnd) ==
  IF oldEnd > start /\ newEnd > start /\ oldValue[oldEnd] = newValue[newEnd]
  THEN ScanEnd(oldValue, newValue, start, oldEnd - 1, newEnd - 1)
  ELSE [oldEnd |-> oldEnd, newEnd |-> newEnd]

\* a panel: the text of its replica, the value of its textarea, and of the
\* last input event the old text it read, the three indices it computed and
\* the update notifications its transaction caused
NewPanel ==
  [text |-> <<>>, textarea |-> <<>>, isUpdatingTextarea |-> FALSE,
   oldValue |-> <<>>, start |-> 0, oldEnd |-> 0, newEnd |-> 0, updates |-> 0]

\* the 'input' listener of bindText; the user has set the textarea to
\* newValue
onInput(p, newValue, updating) ==
  LET p0 == [p EXCEPT !.textarea = newValue, !.isUpdatingTextarea = updating,
                      !.oldValue = p.text, !.updates = 0]
      oldValue == p.text
      start == ScanStart(oldValue, newValue, 0)
      ends == ScanEnd(oldValue, newValue, start, Len(oldValue), Len(newValue))
      t1 == IF ends.oldEnd - start > 0
            THEN yTextDelete(p.text, start, ends.oldEnd - start) ELSE p.text
      t2 == IF ends.newEnd - start > 0
            THEN yTextInsert(t1, start, slice(newValue, start, ends.newEnd)) ELSE t1
      changed == ends.oldEnd - start > 0 \/ ends.newEnd - start > 0
  IN  IF updating THEN p0
      ELSE [p0 EXCEPT !.text = t2, !.start = start,
                      !.oldEnd = ends.oldEnd, !.newEnd = ends.newEnd,
                      !.updates = IF changed THEN 1 ELSE 0]

\* ------------------------------------------------------------- UpdateLog
MAX_ENTRIES == 80

\* the while loop of addEvent: entries.shift()!.remove()
RECURSIVE shiftWhileOver(_)
shiftWhileOver(l) ==
  IF Len(l.entries) > MAX_ENTRIES
  THEN shiftWhileOver([l EXCEPT !.entries = Tail(@),
                                !.logBody = SelectSeq(@, LAMBDA x : x # l.entries[1])])
  ELSE l

\* addEvent that lets the log grow to one entry more than MAX_ENTRIES
addEvent_ifNotWhile(l, entry) ==
  LET l1 == [l EXCEPT !.logBody = Append(@, entry), !.entries = Append(@, entry)]
  IN  IF Len(l1.entries) > MAX_ENTRIES + 1
      THEN [l1 EXCEPT !.entries = Tail(@), !.logBody = Tail(@)]
      ELSE l1

\* addEvent(event): entry is the element built for the event
addEvent(l, entry) ==
  shiftWhileOver([l EXCEPT !.logBody = Append(@, entry), !.entries = Append(@, entry)])

\* new UpdateLog()
NewUpdateLog == [entries |-> <<>>, logBody |-> <<>>]

\* ----------------------------------------------------------- state machine
\* the two replicas and the fields of the engine
VARIABLE peerA
VARIABLE peerB
VARIABLE peerAOnline
VARIABLE peerBOnline
VARIABLE queueForA
VARIABLE queueForB
\* the peers on whose document the engine's update handler is registered
VARIABLE subscribed
\* the registered sync-event observers, in registration order
VARIABLE listeners
\* the log of the last operation: events emitted, applyUpdate calls, handler
\* calls, runs of reconcile, whether it threw
VARIABLE events
VARIABLE applied
VARIABLE notified
VARIABLE reconciles
VARIABLE thrown
VARIABLE delivered
\* the last operation: its kind, the peer (or the observer) it named, the
\* flag it passed
VARIABLE lastOp
\* per replica, increments minus decrements made on it
VARIABLE net
\* characters typed, characters deleted and counter clicks so far
VARIABLE edits
\* per peer, the flag passed to the last setOnline call that named it and
\* returned normally
VARIABLE lastSet
\* per replica, the updates of its local mutations since the last run of
\* reconcile, oldest first, each with whether the link was fully online
VARIABLE authored
\* the observers whose registrations a destroy dropped and that have not
\* been registered since
VARIABLE stale
\* the observers whose registrations an offSyncEvent removed and that have
\* not been registered since
VARIABLE removed
\* a peer panel (its text and textarea)
VARIABLE panel
\* the sync log, and the number of events handed to it so far
VARIABLE log
VARIABLE added

vars ==
  <<peerA, peerB, peerAOnline, peerBOnline, queueForA, queueForB, subscribed,
    listeners, events, applied, notified, reconciles, thrown, delivered,
    lastOp, net, edits, lastSet, authored, stale, removed, panel, log, added>>

\* the variables of the engine and of its history
engineVars ==
  <<peerA, peerB, peerAOnline, peerBOnline, queueForA, queueForB, subscribed,
    listeners, events, applied, notified, reconciles, thrown, delivered,
    lastOp, net, edits, lastSet, authored, stale, removed>>

\* the engine value of the current state
eng ==
  [peerA |-> peerA, peerB |-> peerB,
   peerAOnline |-> peerAOnline, peerBOnline |-> peerBOnline,
   queueForA |-> queueForA, queueForB |-> queueForB,
   subscribed |-> subscribed, listeners |-> listeners,
   events |-> events, applied |-> applied, notified |-> notified,
   reconciles |-> reconciles, thrown |-> thrown, delivered |-> delivered]

\* the next state holds the engine value e
Becomes(e) ==
  /\ peerA' = e.peerA /\ peerB' = e.peerB
  /\ peerAOnline' = e.peerAOnline /\ peerBOnline' = e.peerBOnline
  /\ queueForA' = e.queueForA /\ queueForB' = e.queueForB
  /\ subscribed' = e.subscribed /\ listeners' = e.listeners
  /\ events' = e.events /\ applied' = e.applied /\ notified' = e.notified
  /\ reconciles' = e.reconciles /\ thrown' = e.thrown
  /\ delivered' = e.delivered
  /\ UNCHANGED <<panel, log, added>>

Init ==
  /\ \E cidA \in ClientIDs : \E cidB \in ClientIDs \ {cidA} :
       /\ peerA = NewEngine(cidA, cidB).peerA
       /\ peerB = NewEngine(cidA, cidB).peerB
  /\ peerAOnline = TRUE /\ peerBOnline = TRUE
  /\ queueForA = <<>> /\ queueForB = <<>>
  /\ subscribed = {"A", "B"} /\ listeners = <<>>
  /\ events = <<>> /\ applied = <<>> /\ notified = <<>>
  /\ reconciles = 0 /\ thrown = FALSE /\ delivered = <<>>
  /\ lastOp = [kind |-> "init", peer |-> "", online |-> TRUE]
  /\ net = [n \in Names |-> 0]
  /\ edits = 0
  /\ lastSet = [n \in Names |-> TRUE]
  /\ authored = [n \in Names |-> <<>>]
  /\ stale = {}
  /\ removed = {}
  /\ panel = NewPanel
  /\ log = NewUpdateLog
  /\ added = 0

NetDelta(op) == IF op.kind = "inc" THEN 1 ELSE IF op.kind = "dec" THEN -1 ELSE 0

\* the edit op on replica n, with at most max edits in all
EditWithin(n, op, max) ==
  /\ edits + OpCost(op) <= max
  /\ Becomes(localMutation(eng, n, op))
  /\ lastOp' = [kind |-> "edit", peer |-> n, online |-> TRUE]
  /\ net' = [net EXCEPT ![n] = @ + NetDelta(op)]
  /\ edits' = edits + OpCost(op)
  /\ UNCHANGED <<lastSet, stale, removed>>

\* a user edits replica n
Edit(n, op) == EditWithin(n, op, MaxEdits) /\ UNCHANGED authored

\* a user edits replica n, and the update of the edit is written down
EditRecorded(n, op) ==
  /\ EditWithin(n, op, MaxEdits)
  /\ authored' = [authored EXCEPT ![n] =
         Append(@, [update |-> mutate(docOf(eng, n), n, op).update,
                    live |-> peerAOnline /\ peerBOnline])]

SetOnline(peerName, online) ==
  /\ Becomes(setOnline(eng, peerName, online))
  /\ lastOp' = [kind |-> "setOnline", peer |-> peerName, online |-> online]
  /\ lastSet' = IF peerName \in Names /\ ~setOnline(eng, peerName, online).thrown
                THEN [lastSet EXCEPT ![peerName] = online]
                ELSE lastSet
  /\ authored' = IF setOnline(eng, peerName, online).reconciles > 0
                 THEN [n \in Names |-> <<>>] ELSE authored
  /\ UNCHANGED <<net, edits, stale, removed>>

\* a caller asks isPeerOnline(peerName); lastOp keeps the value returned
IsPeerOnline(peerName) ==
  /\ Becomes(isPeerOnlineCall(eng, peerName))
  /\ lastOp' = [kind |-> "isPeerOnline", peer |-> peerName,
                online |-> IF isPeerOnlineCall(eng, peerName).thrown THEN FALSE
                           ELSE isPeerOnline(eng, peerName)]
  /\ UNCHANGED <<net, edits, lastSet, authored, stale, removed>>

OnSyncEvent(cb) ==
  /\ Len(listeners) < MaxListeners
  /\ Becomes(onSyncEvent(eng, cb))
  /\ lastOp' = [kind |-> "onSyncEvent", peer |-> cb, online |-> TRUE]
  /\ stale' = stale \ {cb}
  /\ removed' = removed \ {cb}
  /\ UNCHANGED <<net, edits, lastSet, authored>>

OffSyncEvent(cb) ==
  /\ Becomes(offSyncEvent(eng, cb))
  /\ lastOp' = [kind |-> "offSyncEvent", peer |-> cb, online |-> TRUE]
  /\ removed' = removed \cup ({cb} \cap Range(listeners))
  /\ UNCHANGED <<net, edits, lastSet, authored, stale>>

Destroy ==
  /\ Becomes(destroy(eng))
  /\ lastOp' = [kind |-> "destroy", peer |-> "", online |-> TRUE]
  /\ stale' = stale \cup Range(listeners)
  /\ UNCHANGED <<net, edits, lastSet, authored, removed>>

Next ==
  \/ \E n \in Names : \E op \in LocalOps(docOf(eng, n)) : Edit(n, op)
  \/ \E peerName \in Names : \E online \in BOOLEAN : SetOnline(peerName, online)
  \/ Destroy

Spec == Init /\ [][Next]_vars

\* the engine with callers that also pass a name of neither peer and that
\* ask isPeerOnline
NextApi ==
  \/ \E n \in Names : \E op \in LocalOps(docOf(eng, n)) :
       EditWithin(n, op, MaxApiEdits) /\ UNCHANGED authored
  \/ \E peerName \in Names \cup {UnknownName} : \E online \in BOOLEAN :
       SetOnline(peerName, online)
  \/ \E peerName \in Names \cup {UnknownName} : IsPeerOnline(peerName)
  \/ Destroy

SpecApi == Init /\ [][NextApi]_vars

\* the engine with observers that register and unregister
NextBus ==
  \/ \E n \in Names : \E op \in LocalOps(docOf(eng, n)) :
       EditWithin(n, op, MaxApiEdits) /\ UNCHANGED authored
  \/ \E peerName \in Names : \E online \in BOOLEAN : SetOnline(peerName, online)
  \/ \E cb \in Observers : OnSyncEvent(cb)
  \/ \E cb \in Observers : OffSyncEvent(cb)
  \/ Destroy

SpecBus == Init /\ [][NextBus]_vars

\* the replicas and queues the engine produces, as inputs of the merge
\* function: the operations run as above and their log is dropped
MergeEdit(n, op) ==
  /\ edits + OpCost(op) <= MaxEdits
  /\ Becomes(begin(localMutation(eng, n, op)))
  /\ edits' = edits + OpCost(op)
  /\ UNCHANGED <<lastOp, net, lastSet, authored, stale, removed>>

MergeSetOnline(peerName, online) ==
  /\ Becomes(begin(setOnline(eng, peerName, online)))
  /\ UNCHANGED <<lastOp, net, edits, lastSet, authored, stale, removed>>

NextMerge ==
  \/ \E n \in Names : \E op \in LocalOps(docOf(eng, n)) : MergeEdit(n, op)
  \/ \E peerName \in Names : \E online \in BOOLEAN : MergeSetOnline(peerName, online)

SpecMerge == Init /\ [][NextMerge]_vars

\* the engine with the updates of the local mutations written down
NextOrder ==
  \/ \E n \in Names : \E op \in LocalOps(docOf(eng, n)) : EditRecorded(n, op)
  \/ \E peerName \in Names : \E online \in BOOLEAN : SetOnline(peerName, online)
  \/ Destroy

SpecOrder == Init /\ [][NextOrder]_vars

\* the user edits the textarea of a panel
Input(newValue, updating) ==
  /\ panel' = onInput(panel, newValue, updating)
  /\ UNCHANGED <<engineVars, log, added>>

NextPanel == \E newValue \in Strings : \E updating \in BOOLEAN : Input(newValue, updating)

SpecPanel == Init /\ [][NextPanel]_vars

\* a sync event reaches the sync log; the entry built for it is numbered by
\* its arrival
AddEvent ==
  /\ added < MaxLogEvents
  /\ added' = added + 1
  /\ log' = addEvent(log, added + 1)
  /\ UNCHANGED <<engineVars, panel>>

NextLog == AddEvent

SpecLog == Init /\ [][NextLog]_vars

\* ------------------------------------------------------------------ claims
docA == peerA.doc
docB == peerB.doc
Live == subscribed = Names
BothOnline == peerAOnline /\ peerBOnline
AuthoredBy(doc, cid) == {it \in Items(doc) : it.id[1] = cid}
HoldsBothAuthors(doc) ==
  AuthoredBy(doc, docA.clientID) # {} /\ AuthoredBy(doc, docB.clientID) # {}

\* C1 (convergence while online): in every state of a live engine in which
\* both peers are online, replica A and replica B hold the same text and the
\* same counters.
C1_Convergence ==
  (Live /\ BothOnline) => Content(docA) = Content(docB)

\* a live relay has just carried an edit and both replicas hold edits of both
C1_Witness ==
  /\ Live /\ BothOnline
  /\ lastOp.kind = "edit"
  /\ Len(eng.events) = 1 /\ eng.events[1].type = "live"
  /\ HoldsBothAuthors(docA) /\ HoldsBothAuthors(docB)
  /\ Content(docA) = Content(docB)

\* C2 (concurrent offline edits commute): from every state with both peers
\* offline, setting both online in either order leaves A and B with equal
\* content, holding every operation either replica held, and the content
\* does not depend on which peer was set online first.
C2_Reconnect(first) ==
  setOnline(setOnline(eng, first, TRUE), Other(first), TRUE)

C2_Merged(e) ==
  /\ Content(e.peerA.doc) = Content(e.peerB.doc)
  /\ \A d \in {e.peerA.doc, e.peerB.doc} :
       /\ Items(docA) \cup Items(docB) \subseteq Items(d)
       /\ docA.deleted \cup docB.deleted \subseteq d.deleted
       /\ \A it \in Range(docA.lists[TextKey]) \cup Range(docB.lists[TextKey]) :
            it.id \notin docA.deleted \cup docB.deleted
              => it.content \in Range(toString(d))

C2_OfflineEditsCommute ==
  (~eng.peerAOnline /\ ~eng.peerBOnline) =>
     /\ C2_Merged(C2_Reconnect("A"))
     /\ C2_Merged(C2_Reconnect("B"))
     /\ Content(C2_Reconnect("A").peerA.doc) = Content(C2_Reconnect("B").peerA.doc)

\* both offline, each replica has typed text the other has not seen
C2_Witness ==
  /\ ~eng.peerAOnline /\ ~eng.peerBOnline
  /\ Len(toString(docA)) > 0 /\ Len(toString(docB)) > 0
  /\ Items(docA) \cap Items(docB) = {}
  /\ Len(toString(C2_Reconnect("A").peerA.doc)) = MaxEdits

\* C3 (offline isolation): across a step that leaves p offline, p's replica
\* changes only by a local edit on p, and gains only operations authored by
\* p's own document.
C3_StepIsolated(p) ==
  (~isPeerOnline(eng, p) /\ ~isPeerOnline(eng', p)) =>
     \/ docOf(eng', p) = docOf(eng, p)
     \/ /\ lastOp'.kind = "edit" /\ lastOp'.peer = p
        /\ \A it \in Items(docOf(eng', p)) \ Items(docOf(eng, p)) :
             it.id[1] = docOf(eng, p).clientID

C3_OfflineIsolation == [][\A p \in Names : C3_StepIsolated(p)]_vars

\* B is offline while a live engine has just handled an edit of A that B lacks
C3_Witness ==
  /\ Live /\ eng.peerAOnline /\ ~eng.peerBOnline
  /\ lastOp.kind = "edit" /\ lastOp.peer = "A"
  /\ Items(docA) \ Items(docB) # {}
  /\ Content(docA) # Content(docB)

\* C4 (queue-then-reconcile equivalence): from every state of a live engine
\* with A online and equal replicas, for every sequence of edits on B, the
\* run that first sets A offline and at the end sets A online leaves A with
\* the same content as the run in which A stays online.
\* C4_Runs: the pairs <<offline run, online run>> after the same edits on B,
\* budget bounding the characters and clicks of the sequence.
RECURSIVE C4_Runs(_, _, _)
C4_Runs(off, on, budget) ==
  {<<off, on>>} \cup
  UNION {C4_Runs(localMutation(off, "B", op), localMutation(on, "B", op),
                 budget - OpCost(op)) :
         op \in {o \in LocalOps(docOf(off, "B")) : OpCost(o) <= budget}}

C4_QueueThenReconcile ==
  (Live /\ eng.peerAOnline /\ Content(docA) = Content(docB)) =>
     \A pr \in C4_Runs(setOnline(eng, "A", FALSE), eng, MaxEdits - edits) :
        Content(setOnline(pr[1], "A", TRUE).peerA.doc) = Content(pr[2].peerA.doc)

\* A has just come back online and received by reconciliation, from B only,
\* edits that B made meanwhile
C4_Witness ==
  /\ Live /\ BothOnline
  /\ lastOp.kind = "setOnline" /\ lastOp.peer = "A" /\ lastOp.online
  /\ Len(eng.events) = 1
  /\ eng.events[1].type = "reconnect" /\ eng.events[1].to = "A"
  /\ AuthoredBy(docA, docB.clientID) # {}
  /\ AuthoredBy(docA, docA.clientID) = {}
  /\ edits = MaxEdits

\* C5 (counter additivity): in every state of a live engine with both peers
\* online, and in every state a reconciliation has just produced, each
\* replica reads under each peer's key that peer's net count (0 for a key
\* never written), and getCounterTotal is the sum of the two net counts.
C5_CounterAdditivity ==
  ((Live /\ BothOnline) \/ eng.reconciles > 0) =>
     \A r \in Names :
        /\ \A p \in Names : counterOrZero(docOf(eng, r), p) = net[p]
        /\ \A p \in Names : mapHas(docOf(eng, r), p) \/ net[p] = 0
        /\ getCounterTotal(docOf(eng, r)) = net["A"] + net["B"]

\* a reconciliation has just merged counter clicks made on both replicas
C5_Witness ==
  /\ eng.reconciles = 1 /\ Len(eng.events) = 2
  /\ net["A"] # 0 /\ net["B"] # 0
  /\ mapHas(docA, "B") /\ mapHas(docB, "A")

\* C6 (relay rule): when a live engine handles a local mutation of replica n
\* with update u: if both peers are online, u is applied once to the other
\* replica with origin 'remote', one live event is emitted and no queue
\* changes; otherwise u is appended to the queue of the other peer, one
\* queued event is emitted, and the other replica does not change.
C6_Relayed(n, u) ==
  LET m == Other(n)
      ev(type) == [from |-> n, to |-> m, bytes |-> byteLength(u), type |-> type]
  IN  IF BothOnline
      THEN /\ eng'.applied = <<[to |-> m, update |-> u, origin |-> "remote"]>>
           /\ docOf(eng', m) = docApplyUpdate(docOf(eng, m), u)
           /\ u.structs \subseteq Items(docOf(eng', m))
           /\ u.ds \subseteq docOf(eng', m).deleted
           /\ eng'.events = <<ev("live")>>
           /\ eng'.queueForA = eng.queueForA /\ eng'.queueForB = eng.queueForB
      ELSE /\ eng'.applied = <<>>
           /\ docOf(eng', m) = docOf(eng, m)
           /\ eng'.events = <<ev("queued")>>
           /\ IF m = "A"
              THEN /\ eng'.queueForA = Append(eng.queueForA, u)
                   /\ eng'.queueForB = eng.queueForB
              ELSE /\ eng'.queueForB = Append(eng.queueForB, u)
                   /\ eng'.queueForA = eng.queueForA

C6_RelayRule ==
  [][\A n \in Names : \A op \in LocalOps(docOf(eng, n)) :
       (/\ Live /\ lastOp'.kind = "edit" /\ lastOp'.peer = n
        /\ docOf(eng', n) = mutate(docOf(eng, n), n, op).doc)
       => C6_Relayed(n, mutate(docOf(eng, n), n, op).update)]_vars

\* A, offline, has just edited: the update sits in the queue for B and B,
\* although online, has not received it
C6_Witness ==
  /\ Live /\ ~eng.peerAOnline /\ eng.peerBOnline
  /\ lastOp.kind = "edit" /\ lastOp.peer = "A"
  /\ Len(eng.queueForB) > 0
  /\ Len(eng.events) = 1 /\ eng.events[1].type = "queued"
  /\ eng.queueForB[Len(eng.queueForB)].structs \cap Items(docB) = {}

\* C7 (relay-loop suppression): a notification with origin 'remote' emits,
\* queues and applies nothing; each local mutation on a live engine emits
\* exactly one event, from the authoring peer to the other, and applies
\* nothing to the authoring replica; a setOnline emits reconnect events only.
C7_Count(seq, P(_)) == Cardinality({i \in 1..Len(seq) : P(seq[i])})

C7_LoopSuppression ==
  /\ C7_Count(eng.events, LAMBDA ev : ev.type \in {"live", "queued"})
       = C7_Count(eng.notified, LAMBDA nt : nt.origin # "remote")
  /\ (lastOp.kind = "edit" /\ Live) =>
        /\ Len(eng.events) = 1
        /\ eng.events[1].from = lastOp.peer
        /\ eng.events[1].to = Other(lastOp.peer)
        /\ \A i \in 1..Len(eng.applied) : eng.applied[i].to # lastOp.peer
        /\ C7_Count(eng.notified, LAMBDA nt : nt.peer = lastOp.peer) = 1
  /\ lastOp.kind = "setOnline" =>
        /\ \A i \in 1..Len(eng.events) : eng.events[i].type = "reconnect"
        /\ \A i \in 1..Len(eng.notified) : eng.notified[i].origin = "remote"

\* a live relay of A's edit changed B, B's handler was called with origin
\* 'remote', and still exactly one event was emitted
C7_Witness ==
  /\ Live /\ lastOp.kind = "edit" /\ lastOp.peer = "A"
  /\ eng.notified = <<[peer |-> "A", origin |-> "local"],
                      [peer |-> "B", origin |-> "remote"]>>
  /\ Len(eng.events) = 1 /\ eng.events[1].type = "live"

\* C8 as stated (reconciliation trigger): a setOnline call runs reconcile
\* once if it moves the link from not fully online to fully online and not
\* at all otherwise; no other operation runs reconcile.
C8_OnlyOnEdge ==
  [][/\ lastOp'.kind = "setOnline" =>
          eng'.reconciles = IF ~BothOnline /\ BothOnline' THEN 1 ELSE 0
     /\ lastOp'.kind # "setOnline" => eng'.reconciles = 0]_vars

\* C8 amended (reconciliation trigger): reconcile runs exactly once in every
\* setOnline(., true) call that leaves both flags true, also when the link
\* was fully online before the call, and it runs at no other time.
C8_ReconcileTrigger ==
  [][/\ lastOp'.kind = "setOnline" =>
          eng'.reconciles = IF lastOp'.online /\ BothOnline' THEN 1 ELSE 0
     /\ lastOp'.kind # "setOnline" => eng'.reconciles = 0
     /\ (~BothOnline /\ BothOnline') => eng'.reconciles = 1]_vars

\* setOnline('B', true) has just crossed the edge into the fully-online
\* state and its one reconciliation had deltas for both directions
C8_Witness ==
  /\ lastOp.kind = "setOnline" /\ lastOp.peer = "B" /\ lastOp.online
  /\ BothOnline /\ eng.reconciles = 1
  /\ Len(eng.events) = 2

\* C9 as stated (queue invariant): a queue grows only while its destination
\* peer is offline.
C9_OnlyWhileDestinationOffline ==
  [][/\ Len(eng'.queueForB) > Len(eng.queueForB) => ~eng.peerBOnline
     /\ Len(eng'.queueForA) > Len(eng.queueForA) => ~eng.peerAOnline]_vars

\* C9 amended (queue invariant): a queue grows only while the link is not
\* fully online, that is while at least one of the two peers (the
\* destination or the source) is offline; it never grows while both peers
\* are online.
C9_QueueInvariant ==
  [][(\/ Len(eng'.queueForB) > Len(eng.queueForB)
      \/ Len(eng'.queueForA) > Len(eng.queueForA))
     => (~BothOnline /\ ~BothOnline' /\ lastOp'.kind = "edit")]_vars

\* the queue for B has just grown, by an edit of A, and only A is offline
C9_Witness ==
  /\ Live /\ ~eng.peerAOnline /\ eng.peerBOnline
  /\ lastOp.kind = "edit" /\ lastOp.peer = "A"
  /\ Len(eng.events) = 1 /\ eng.events[1].type = "queued"
  /\ Len(eng.queueForB) = MaxEdits

\* C10 (queues are a hint): both queues are empty whenever both peers are
\* online and after every reconciliation; a reconciliation applies at most
\* the two state-vector deltas computed from the replicas as they were when
\* it began, never the entries of a queue.
C10_Deltas ==
  {[to |-> "A", origin |-> "remote",
    update |-> docEncodeStateAsUpdate(docB, getStateVector(docA))],
   [to |-> "B", origin |-> "remote",
    update |-> docEncodeStateAsUpdate(docA, getStateVector(docB))]}

C10_QueuesAreAHint ==
  /\ []((BothOnline \/ eng.reconciles > 0) =>
          (eng.queueForA = <<>> /\ eng.queueForB = <<>>))
  /\ [][eng'.reconciles > 0 =>
          /\ Len(eng'.applied) <= 2
          /\ \A i \in 1..Len(eng'.applied) : eng'.applied[i] \in C10_Deltas
          /\ \A i, j \in 1..Len(eng'.applied) :
               i # j => eng'.applied[i].to # eng'.applied[j].to]_vars

\* a reconciliation on a live engine has just applied a delta: the edit
\* behind it had been queued, and the queues are empty now
C10_Witness ==
  /\ Live /\ BothOnline
  /\ lastOp.kind = "setOnline" /\ eng.reconciles = 1
  /\ Len(eng.applied) = 2
  /\ eng.queueForA = <<>> /\ eng.queueForB = <<>>

\* C11 (unknown-peer error): a setOnline or isPeerOnline call whose name is
\* the name of neither peer throws, and across it no online flag, no queue,
\* no replica and no registration changes, no event is emitted or
\* delivered, no update is applied and reconcile does not run; a call that
\* names a peer does not throw.
C11_Names == {peerA.name, peerB.name}

C11_UnknownPeerRejected ==
  [][lastOp'.kind \in {"setOnline", "isPeerOnline"} =>
       IF lastOp'.peer \in C11_Names THEN ~thrown'
       ELSE /\ thrown'
            /\ peerAOnline' = peerAOnline /\ peerBOnline' = peerBOnline
            /\ queueForA' = queueForA /\ queueForB' = queueForB
            /\ peerA' = peerA /\ peerB' = peerB
            /\ subscribed' = subscribed /\ listeners' = listeners
            /\ events' = <<>> /\ delivered' = <<>> /\ applied' = <<>>
            /\ notified' = <<>> /\ reconciles' = 0]_vars

\* setOnline(unknown, true) has thrown while A is online, B is offline and
\* an edit of A waits for B: had the call been taken for B, it would have
\* reconciled
C11_Witness ==
  /\ thrown /\ lastOp.kind = "setOnline" /\ lastOp.peer = UnknownName
  /\ lastOp.online
  /\ peerAOnline /\ ~peerBOnline /\ Live
  /\ queueForB # <<>> /\ Items(docA) # Items(docB)

\* C12 (idempotent destroy): a destroy call never throws and leaves the
\* engine unsubscribed from both peers and without observers; it changes no
\* replica, flag or queue and emits nothing, so a destroy on an engine that
\* is already destroyed (and on which nothing was registered since) changes
\* nothing at all.  An observer whose registration a destroy dropped is
\* called by no later operation, local mutation or setOnline.
C12_Received(cb) == \E i \in 1..Len(delivered) : delivered[i].cb = cb

C12_DestroyStep ==
  /\ ~thrown' /\ subscribed' = {} /\ listeners' = <<>>
  /\ peerA' = peerA /\ peerB' = peerB
  /\ peerAOnline' = peerAOnline /\ peerBOnline' = peerBOnline
  /\ queueForA' = queueForA /\ queueForB' = queueForB
  /\ events' = <<>> /\ delivered' = <<>> /\ applied' = <<>>
  /\ (subscribed = {} /\ listeners = <<>>) =>
        (subscribed' = subscribed /\ listeners' = listeners)

C12_IdempotentDestroy ==
  /\ [](\A cb \in stale : ~C12_Received(cb))
  /\ [][lastOp'.kind = "destroy" => C12_DestroyStep]_vars

\* f was registered when the engine was destroyed; afterwards g was
\* registered and a setOnline reconciled: the reconnect event reached g only
C12_Witness ==
  /\ stale = {"f"} /\ subscribed = {}
  /\ lastOp.kind = "setOnline" /\ reconciles = 1
  /\ Len(events) > 0 /\ events[1].type = "reconnect"
  /\ C12_Received("g") /\ ~C12_Received("f")

\* C13 (eventual delivery): when a setOnline call takes the link from not
\* fully online to fully online, then at its completion every insertion and
\* every deletion that either replica held before the call (so every edit
\* made while one peer or both were offline) is held by both replicas, with
\* nothing left pending.
C13_Held(doc) == [items |-> Items(doc), deleted |-> doc.deleted]

C13_Delivered ==
  /\ C13_Held(docA).items \cup C13_Held(docB).items
        \subseteq C13_Held(docA').items \cap C13_Held(docB').items
  /\ C13_Held(docA).deleted \cup C13_Held(docB).deleted
        \subseteq C13_Held(docA').deleted \cap C13_Held(docB').deleted
  /\ \A d \in {docA', docB'} : d.pendingStructs = {} /\ d.pendingDs = {}

C13_EventualDelivery ==
  [][(lastOp'.kind = "setOnline" /\ ~BothOnline /\ BothOnline') => C13_Delivered]_vars

\* both replicas were edited while disconnected; the setOnline call that
\* closed the link has handed each replica the other's edit
C13_Witness ==
  /\ lastOp.kind = "setOnline" /\ BothOnline /\ Live
  /\ Len(applied) = 2
  /\ applied[1].update.structs # {} /\ applied[2].update.structs # {}
  /\ applied[1].update.structs \cap applied[2].update.structs = {}
  /\ Items(docA) = Items(docB) /\ Cardinality(Items(docA)) = 2

\* C14 (reconnect events): in a run of reconcile, for each direction the
\* destination is given one update and one reconnect event from the source
\* to the destination is emitted if the source held an insertion or a
\* deletion the destination lacked, and neither happens otherwise; so at most
\* two reconnect events are emitted, and none when the replicas were equal.
C14_Lacks(src, dst) ==
  ~(Items(src) \subseteq Items(dst)) \/ ~(src.deleted \subseteq dst.deleted)

C14_Reported(e, s, d) ==
  Cardinality({i \in 1..Len(e.events) :
     e.events[i].from = s /\ e.events[i].to = d /\ e.events[i].type = "reconnect"})

C14_Applied(e, d) ==
  Cardinality({i \in 1..Len(e.applied) :
     e.applied[i].to = d /\ e.applied[i].origin = "remote"})

C14_ReconnectEvents ==
  [][reconciles' = 1 =>
       /\ \A s \in Names :
            IF C14_Lacks(docOf(eng, s), docOf(eng, Other(s)))
            THEN C14_Reported(eng', s, Other(s)) = 1 /\ C14_Applied(eng', Other(s)) = 1
            ELSE C14_Reported(eng', s, Other(s)) = 0 /\ C14_Applied(eng', Other(s)) = 0
       /\ Len(events') <= 2
       /\ (Items(docA) = Items(docB) /\ docA.deleted = docB.deleted) => events' = <<>>]_vars

\* C15 (observer removal): an offSyncEvent(cb) call leaves cb with no
\* registration and every other observer with the registrations it had, and
\* changes nothing else; if cb was not registered the list of observers is
\* unchanged.  In every operation an observer without a registration is not
\* called, and an observer with k registrations is called k times for each
\* event emitted, in the order of the events.
C15_Registrations(ls, cb) == Cardinality({i \in 1..Len(ls) : ls[i] = cb})

C15_ReceivedBy(cb) ==
  LET mine == SelectSeq(delivered, LAMBDA d : d.cb = cb)
  IN  [i \in 1..Len(mine) |-> mine[i].event]

C15_Repeated(seq, k) == [i \in 1..(k * Len(seq)) |-> seq[((i - 1) \div k) + 1]]

C15_RemovalStep ==
  LET cb == lastOp'.peer
  IN  /\ C15_Registrations(listeners', cb) = 0
      /\ \A o \in Observers \ {cb} :
           C15_Registrations(listeners', o) = C15_Registrations(listeners, o)
      /\ C15_Registrations(listeners, cb) = 0 => listeners' = listeners
      /\ peerA' = peerA /\ peerB' = peerB /\ subscribed' = subscribed
      /\ peerAOnline' = peerAOnline /\ peerBOnline' = peerBOnline
      /\ queueForA' = queueForA /\ queueForB' = queueForB
      /\ events' = <<>> /\ delivered' = <<>> /\ ~thrown'

C15_ObserverRemoval ==
  /\ [](\A cb \in Observers :
          C15_ReceivedBy(cb) = C15_Repeated(events, C15_Registrations(listeners, cb)))
  /\ [][lastOp'.kind = "offSyncEvent" => C15_RemovalStep]_vars

\* f was removed while g stayed registered; the edit that followed was
\* reported to g and not to f
C15_Witness ==
  /\ removed = {"f"} /\ listeners = <<"g">> /\ Live
  /\ lastOp.kind = "edit" /\ Len(events) = 1
  /\ C15_ReceivedBy("g") = events /\ C15_ReceivedBy("f") = <<>>

\* C16 (merge is idempotent and commutative): for every replica state r (A's,
\* B's, or a replica as constructed) and all deltas u, v the program holds
\* (the queued updates, the full states of A and of B and what each lacks
\* of the other): applying u twice to r gives the state applying it once
\* gives, and applying u then v gives the state applying v then u gives.
C16_Replicas == {docA, docB, NewDoc(docA.clientID)}

C16_Deltas ==
  Range(queueForA) \cup Range(queueForB)
    \cup {docEncodeStateAsUpdate(d, getStateVector(r)) :
            d \in {docA, docB}, r \in C16_Replicas}

C16_MergeIdempotentCommutative ==
  \A r \in C16_Replicas : \A u \in C16_Deltas :
     /\ docApplyUpdate(docApplyUpdate(r, u), u) = docApplyUpdate(r, u)
     /\ \A v \in C16_Deltas :
          docApplyUpdate(docApplyUpdate(r, u), v) = docApplyUpdate(docApplyUpdate(r, v), u)

\* A and B have each typed a character at the same place while disconnected;
\* a fresh replica that is given the two queued updates holds both
\* characters and no pending struct
C16_Witness ==
  /\ Len(queueForA) = 1 /\ Len(queueForB) = 1
  /\ \E x \in queueForA[1].structs : \E y \in queueForB[1].structs :
       /\ x.parent = TextKey /\ y.parent = TextKey
       /\ x.origin = y.origin /\ x.rightOrigin = y.rightOrigin
  /\ LET r == docApplyUpdate(docApplyUpdate(NewDoc(docA.clientID), queueForB[1]),
                             queueForA[1])
     IN  Len(toString(r)) = 2 /\ r.pendingStructs = {}

\* C17 (setOnline frame): a setOnline call after which the link is not fully
\* online sets the flag of the peer it names and changes nothing else: the
\* other flag, both replicas and both queues stay as they were, no event is
\* emitted, no update is applied and reconcile does not run.
C17_FlagOf(e, n) == IF n = e.peerA.name THEN e.peerAOnline ELSE e.peerBOnline

C17_SetOnlineFrame ==
  [][(lastOp'.kind = "setOnline" /\ ~BothOnline') =>
       /\ C17_FlagOf(eng', lastOp'.peer) = lastOp'.online
       /\ C17_FlagOf(eng', Other(lastOp'.peer)) = C17_FlagOf(eng, Other(lastOp'.peer))
       /\ peerA' = peerA /\ peerB' = peerB
       /\ queueForA' = queueForA /\ queueForB' = queueForB
       /\ subscribed' = subscribed
       /\ events' = <<>> /\ applied' = <<>> /\ notified' = <<>>
       /\ reconciles' = 0]_vars

\* A was set online while B stays offline and edits wait in both queues:
\* nothing was delivered
C17_Witness ==
  /\ lastOp.kind = "setOnline" /\ lastOp.peer = "A" /\ lastOp.online
  /\ peerAOnline /\ ~peerBOnline /\ Live
  /\ queueForA # <<>> /\ queueForB # <<>>
  /\ Items(docA) \cap Items(docB) = {}
  /\ events = <<>> /\ reconciles = 0

\* C18 (online flags): both peers are online after construction; for each
\* peer p, isPeerOnline(p) is the flag passed to the last setOnline(p, .)
\* call that returned normally, and true if there was none; a flag changes
\* only in a setOnline call that names its peer.
C18_FlagsFollowSetOnline ==
  /\ [](/\ lastOp.kind = "init" => (peerAOnline /\ peerBOnline)
        /\ \A p \in Names : isPeerOnline(eng, p) = lastSet[p]
        /\ (lastOp.kind = "isPeerOnline" /\ ~thrown) =>
              lastOp.online = lastSet[lastOp.peer])
  /\ [][/\ peerAOnline' # peerAOnline =>
             (lastOp'.kind = "setOnline" /\ lastOp'.peer = peerA.name /\ ~thrown')
        /\ peerBOnline' # peerBOnline =>
             (lastOp'.kind = "setOnline" /\ lastOp'.peer = peerB.name /\ ~thrown')]_vars

\* isPeerOnline('A') has answered false: A was set offline, B was not, and
\* an edit of A waits for B
C18_Witness ==
  /\ lastOp.kind = "isPeerOnline" /\ lastOp.peer = "A" /\ ~lastOp.online
  /\ ~thrown /\ ~lastSet["A"] /\ lastSet["B"] /\ peerBOnline
  /\ queueForB # <<>>

\* C19 (deltas of the state before reconcile): every update a run of
\* reconcile applies to a destination consists of the insertions the source
\* held and the destination lacked when the run began, together with the
\* whole delete set the source had at that moment (deletions the destination
\* already holds included); it carries nothing the source received from the
\* destination in the same run.
C19_AppliedTo(d) ==
  {applied'[i].update : i \in {j \in 1..Len(applied') : applied'[j].to = d}}

C20_QueueFor(e, n) == IF n = e.peerA.name THEN e.queueForA ELSE e.queueForB

C20_Updates(seq) == [i \in 1..Len(seq) |-> seq[i].update]

C20_Event(n, u, type) ==
  [from |-> n, to |-> Other(n), bytes |-> byteLength(u), type |-> type]

C20_RelayedInTurn ==
  \A n \in Names :
    (lastOp'.kind = "edit" /\ lastOp'.peer = n /\ Live) =>
      LET u == authored'[n][Len(authored'[n])].update
      IN  /\ Len(authored'[n]) = Len(authored[n]) + 1
          /\ C20_QueueFor(eng', n) = C20_QueueFor(eng, n)
          /\ IF BothOnline
             THEN /\ applied' = <<[to |-> Other(n), update |-> u, origin |-> "remote"]>>
                  /\ events' = <<C20_Event(n, u, "live")>>
                  /\ C20_QueueFor(eng', Other(n)) = C20_QueueFor(eng, Other(n))
             ELSE /\ applied' = <<>>
                  /\ events' = <<C20_Event(n, u, "queued")>>
                  /\ C20_QueueFor(eng', Other(n)) = Append(C20_QueueFor(eng, Other(n)), u)

\* as first stated: while the link is not fully online, the queue holds
\* every mutation of the source since the last run of reconcile
C20_QueueIsAllSinceReconcile ==
  /\ []((Live /\ ~BothOnline) => \A n \in Names :
            C20_QueueFor(eng, Other(n)) = C20_Updates(authored[n]))
  /\ [][C20_RelayedInTurn]_vars

C20_OrderPerDestination ==
  /\ [](Live => \A n \in Names :
            C20_QueueFor(eng, Other(n)) =
              C20_Updates(SelectSeq(authored[n], LAMBDA a : ~a.live)))
  /\ [][C20_RelayedInTurn]_vars

\* A has made two different mutations while B was offline: both wait for B,
\* the older one first
C20_Witness ==
  /\ Live /\ ~peerBOnline /\ lastOp.kind = "edit"
  /\ Len(authored["A"]) = 2 /\ Len(queueForB) = 2
  /\ queueForB[1] # queueForB[2]
  /\ queueForB[1] = authored["A"][1].update
  /\ queueForB[2] = authored["A"][2].update

\* C21 (event bus delivery): within the operation that emits them, the
\* events are handed to the observers one event after the other, each event
\* to every registration held at that moment, once per registration, in
\* registration order; a local mutation or a setOnline call does not change
\* the registrations.
C21_Calls == [i \in 1..Len(delivered) |-> [cb |-> delivered[i].cb, event |-> delivered[i].event]]

C21_Expected(evs, ls) ==
  [i \in 1..(Len(evs) * Len(ls)) |->
     [cb |-> ls[((i - 1) % Len(ls)) + 1], event |-> evs[((i - 1) \div Len(ls)) + 1]]]

C21_EventBusDelivery ==
  /\ [](C21_Calls = C21_Expected(events, listeners))
  /\ [][lastOp'.kind \in {"edit", "setOnline"} => listeners' = listeners]_vars

\* g registered before f; a live relay was reported to g, then to f
C21_Witness ==
  /\ listeners = <<"g", "f">> /\ Live /\ lastOp.kind = "edit"
  /\ Len(events) = 1 /\ events[1].type = "live"
  /\ Len(delivered) = 2
  /\ delivered[1].cb = "g" /\ delivered[2].cb = "f"
  /\ delivered[1].event = events[1] /\ delivered[2].event = events[1]

\* C22 (apply before emit): when an observer is called for a live or a
\* reconnect event, the last applyUpdate call made was on the destination
\* named in the event, with an update of the size the event reports, and the
\* destination replica holds every insertion and deletion of that update;
\* when it is called for a queued event, the destination's queue is its
\* queue of before the mutation with one update of the reported size
\* appended, that update is what the mutation added to the source replica,
\* and the destination replica is as it was before the mutation.
C22_Holds(doc, u) == u.structs \subseteq Items(doc) /\ u.ds \subseteq doc.deleted

C22_AppliedFirst(d) ==
  /\ d.seen.applied # <<>>
  /\ LET last == d.seen.applied[Len(d.seen.applied)]
     IN  /\ last.to = d.event.to /\ last.origin = "remote"
         /\ byteLength(last.update) = d.event.bytes
         /\ C22_Holds(d.seen.doc, last.update)

C22_QueuedFirst(d) ==
  /\ d.seen.queue # <<>>
  /\ LET u == d.seen.queue[Len(d.seen.queue)]
     IN  /\ d.seen.queue = Append(C20_QueueFor(eng, d.event.to), u)
         /\ byteLength(u) = d.event.bytes
         /\ u.structs = Items(docOf(eng', d.event.from)) \ Items(docOf(eng, d.event.from))
         /\ u.ds = docOf(eng', d.event.from).deleted \ docOf(eng, d.event.from).deleted
  /\ d.seen.doc = docOf(eng, d.event.to)
  /\ d.seen.applied = <<>>

C22_ApplyBeforeEmit ==
  [][\A i \in 1..Len(delivered') :
       IF delivered'[i].event.type = "queued"
       THEN C22_QueuedFirst(delivered'[i])
       ELSE C22_AppliedFirst(delivered'[i])]_vars

\* an observer was called for a reconnect event towards B: B's replica, as
\* the observer reads it, already holds the insertion made on A while B was
\* offline
C22_Witness ==
  /\ lastOp.kind = "setOnline" /\ Len(delivered) = 1
  /\ delivered[1].event.type = "reconnect" /\ delivered[1].event.to = "B"
  /\ delivered[1].seen.doc = docB
  /\ Items(docB) # {} /\ Items(docB) = Items(docA)

\* C23 (teardown frame): a destroy call leaves no update handler registered
\* and changes neither replica, neither online flag and neither queue; on a
\* destroyed engine a local mutation on n changes n's replica, calls no
\* handler, changes neither the other replica nor a queue, applies no update
\* and emits no event.
C23_TeardownFrame ==
  [][/\ lastOp'.kind = "destroy" =>
          /\ subscribed' = {}
          /\ peerA' = peerA /\ peerB' = peerB
          /\ peerAOnline' = peerAOnline /\ peerBOnline' = peerBOnline
          /\ queueForA' = queueForA /\ queueForB' = queueForB
     /\ \A n \in Names :
          (subscribed = {} /\ lastOp'.kind = "edit" /\ lastOp'.peer = n) =>
             /\ DocChanged(docOf(eng, n), docOf(eng', n))
             /\ docOf(eng', Other(n)) = docOf(eng, Other(n))
             /\ queueForA' = queueForA /\ queueForB' = queueForB
             /\ notified' = <<>> /\ applied' = <<>> /\ events' = <<>>
             /\ subscribed' = {}]_vars

\* after destroy, with both peers online, B was edited: A has not received
\* the edit and nothing waits in a queue
C23_Witness ==
  /\ subscribed = {} /\ BothOnline
  /\ lastOp.kind = "edit" /\ lastOp.peer = "B"
  /\ ~(Items(docB) \subseteq Items(docA))
  /\ queueForA = <<>> /\ queueForB = <<>> /\ events = <<>>

\* C24 (monotone, uncorrupted history): across every step no replica loses
\* an insertion or a deletion it held.  In every state each replica holds
\* every insertion made on it that the other replica holds, every insertion
\* in a replica carries the client id of one of the two replicas, an
\* insertion held by both replicas is the same item in both, and a replica's
\* deletions are deletions of insertions it holds.
C24_Grows(d0, d1) == Items(d0) \subseteq Items(d1) /\ d0.deleted \subseteq d1.deleted

C24_Sound ==
  /\ AuthoredBy(docB, docA.clientID) \subseteq Items(docA)
  /\ AuthoredBy(docA, docB.clientID) \subseteq Items(docB)
  /\ \A d \in {docA, docB} :
       /\ \A it \in Items(d) : it.id[1] \in {docA.clientID, docB.clientID}
       /\ d.deleted \subseteq Ids(d)
  /\ \A x \in Items(docA) : \A y \in Items(docB) : x.id = y.id => x = y

C24_MonotoneHistory ==
  /\ []C24_Sound
  /\ [][C24_Grows(docA, docA') /\ C24_Grows(docB, docB')]_vars

\* reconcile has just given A an insertion of B: A holds it next to its own
\* insertion, which it made while disconnected
C24_Witness ==
  /\ lastOp.kind = "setOnline" /\ reconciles = 1
  /\ \E i \in 1..Len(applied) :
       applied[i].to = "A" /\ applied[i].update.structs # {}
  /\ AuthoredBy(docA, docA.clientID) # {}
  /\ AuthoredBy(docA, docB.clientID) # {}
  /\ Len(toString(docA)) = 2

\* C25 (local counter operations): on the replica named n, in whatever state
\* it is, incrementCounter sets key n to its value (0 if absent) plus 1 and
\* decrementCounter to its value minus 1; the update either produces holds
\* one item, of key n, and the other peer's key and the text are left as
\* they were.  getCounterTotal is the sum of the keys present, and 0 on a
\* replica as constructed.
C25_WritesOwnKey(d, n, r, delta) ==
  /\ mapHas(r.doc, n)
  /\ mapGet(r.doc, n) = counterOrZero(d, n) + delta
  /\ r.doc.lists[Other(n)] = d.lists[Other(n)]
  /\ r.doc.lists[TextKey] = d.lists[TextKey]
  /\ mapHas(r.doc, Other(n)) = mapHas(d, Other(n))
  /\ Cardinality(r.update.structs) = 1
  /\ \A it \in r.update.structs : it.parent = n
  /\ getCounterTotal(r.doc) = getCounterTotal(d) + delta

C25_LocalCounterOps ==
  \A n \in Names :
     LET d == docOf(eng, n)
     IN  /\ C25_WritesOwnKey(d, n, incrementCounter(d, n), 1)
         /\ C25_WritesOwnKey(d, n, decrementCounter(d, n), 0 - 1)
         /\ getCounterTotal(d) = counterOrZero(d, "A") + counterOrZero(d, "B")
         /\ getCounterTotal(NewDoc(d.clientID)) = 0

\* replica A holds both keys, each 1; one more incrementCounter on A makes
\* its own key 2 and the total 3
C25_Witness ==
  /\ mapHas(docA, "A") /\ mapHas(docA, "B")
  /\ mapGet(docA, "A") = 1 /\ mapGet(docA, "B") = 1
  /\ lastOp.kind = "edit"
  /\ mapGet(incrementCounter(docA, "A").doc, "A") = 2
  /\ getCounterTotal(incrementCounter(docA, "A").doc) = 3

\* C26 (textarea-to-text diff): after an input event handled while the panel
\* is not refreshing the textarea, start is the length of the longest common
\* prefix of the old text and the textarea value, oldEnd and newEnd cut off
\* the longest common suffix of what is left of the two, the text is the old
\* text with old[start, oldEnd) replaced by new[start, newEnd) and equals
\* the textarea value, and the transaction caused one update notification,
\* or none when the two strings were equal.  An input event that arrives
\* while the panel refreshes the textarea changes nothing.
C26_Max(S) == CHOOSE k \in S : \A j \in S : j <= k

C26_CommonPrefix(a, b) ==
  C26_Max({k \in 0..Len(a) : k <= Len(b) /\ SubSeq(a, 1, k) = SubSeq(b, 1, k)})

C26_CommonSuffix(a, b) ==
  C26_Max({k \in 0..Len(a) :
             k <= Len(b) /\ SubSeq(a, Len(a) - k + 1, Len(a)) = SubSeq(b, Len(b) - k + 1, Len(b))})

C26_Handled ==
  LET old == panel.oldValue
      new == panel.textarea
      rest(str) == SubSeq(str, panel.start + 1, Len(str))
  IN  /\ panel.start = C26_CommonPrefix(old, new)
      /\ Len(old) - panel.oldEnd = C26_CommonSuffix(rest(old), rest(new))
      /\ Len(new) - panel.newEnd = C26_CommonSuffix(rest(old), rest(new))
      /\ panel.text = SubSeq(old, 1, panel.start)
                        \o SubSeq(new, panel.start + 1, panel.newEnd)
                        \o SubSeq(old, panel.oldEnd + 1, Len(old))
      /\ panel.text = new
      /\ panel.updates = IF old = new THEN 0 ELSE 1

C26_TextareaDiff ==
  IF panel.isUpdatingTextarea
  THEN panel.text = panel.oldValue /\ panel.updates = 0
  ELSE C26_Handled

\* the user has deleted one of two equal characters: the common prefix and
\* the common suffix would overlap, and the text is the one character left
C26_Witness ==
  /\ ~panel.isUpdatingTextarea
  /\ panel.oldValue = <<"a", "a">> /\ panel.textarea = <<"a">>
  /\ panel.start = 1 /\ panel.oldEnd = 2 /\ panel.newEnd = 1
  /\ panel.text = <<"a">> /\ panel.updates = 1

\* C27 (bounded sync log): after every addEvent the log holds at most
\* MAX_ENTRIES entries: with n events added so far, the entries of the last
\* min(n, MAX_ENTRIES) events, oldest first; the elements shown in the log
\* body are these entries.
C27_Kept == IF added < MAX_ENTRIES THEN added ELSE MAX_ENTRIES

C27_BoundedLog ==
  /\ Len(log.entries) <= MAX_ENTRIES
  /\ log.entries = [i \in 1..C27_Kept |-> added - C27_Kept + i]
  /\ log.logBody = log.entries

\* more than MAX_ENTRIES events have arrived: the oldest are gone, the log
\* is full and ends with the newest
C27_Witness ==
  /\ added > MAX_ENTRIES + 1
  /\ Len(log.entries) = MAX_ENTRIES
  /\ log.entries[1] = added - MAX_ENTRIES + 1
  /\ log.entries[MAX_ENTRIES] = added

====
